---- MODULE Spec2Model ----
(***************************************************************************)
(* elerojs: the frame codec (src/src/protocol.js), the status store        *)
(* (state.js) and the command dispatcher (src/src/stick.js).               *)
(*                                                                         *)
(* The dispatcher is a set of callbacks run to completion on one event     *)
(* loop: API calls (easyCheck/easyInfo/easySend, start, stop), the serial  *)
(* 'data' listener, the completion of serial.write, and setTimeout         *)
(* callbacks.  Every callback is one action.  Time is explicit: pending    *)
(* timers carry the milliseconds left until they are due; Tick lets time   *)
(* pass up to the next instant at which a timer is due (or at which the    *)
(* command delay since the last settlement has passed), and no time passes *)
(* while a due timer has not run.  API calls, serial data and write        *)
(* completions can happen at any of these instants, before or after the    *)
(* timers due at it.                                                       *)
(***************************************************************************)
EXTENDS Integers, Sequences, FiniteSets, Bags, TLC

(***************************************************************************)
(* Bounds of the model.                                                    *)
(***************************************************************************)
\* requests submitted over one run
MaxReq == 2

\* length of the payloads given to buildFrame
MaxPayload == 2

\* length of the byte sequences given to checksum
MaxBytes == 4

\* the integers given to channelToBytes are -MaxChannelArg..MaxChannelArg
MaxChannelArg == 40

\* requests submitted over one run in which the port delivers the stream in pieces
MaxChunkReq == 1

\* bytes the stick sends over such a run
MaxStream == 14

(***************************************************************************)
(* protocol.js: constants.                                                 *)
(***************************************************************************)
HEADER == 170
CMD_EASY_CHECK == 74
CMD_EASY_INFO == 78
CMD_EASY_SEND == 76
RSP_EASY_CONFIRM == 75
RSP_EASY_ACK == 77
PAYLOAD_TOP == 32

\* stick.js: timing constants (milliseconds)
RESPONSE_TIMEOUT_MS == 5000
DEFAULT_DELAY_MS == 500

\* the JS value undefined (also standing for null), encoded as a non-byte integer
Undefined == 0 - 1

(***************************************************************************)
(* Byte and bit arithmetic as JavaScript computes it on these values.      *)
(***************************************************************************)
Byte == 0..255

\* ToInt32 of a byte or of undefined (undefined << 8 and undefined | x use 0)
ToInt32(x) == IF x = Undefined THEN 0 ELSE x

\* 1 << n
Pow2(n) == 2 ^ n

\* bit i of the non-negative integer w
Bit(w, i) == (w \div Pow2(i)) % 2

\* a & b for non-negative a, b below 2^16
RECURSIVE BitAnd16(_, _, _)
BitAnd16(a, b, i) ==
  IF i > 15 THEN 0
  ELSE (IF Bit(a, i) = 1 /\ Bit(b, i) = 1 THEN Pow2(i) ELSE 0) + BitAnd16(a, b, i + 1)

\* word & (word - 1) for 0 <= word < 2^16; word - 1 = -1 has every bit set
AndPred(word) == IF word = 0 THEN 0 ELSE BitAnd16(word, word - 1, 0)

\* buffer[i] (0-based), undefined past the end
At(buf, i) == IF i + 1 <= Len(buf) THEN buf[i + 1] ELSE Undefined

\* buffer.subarray(from, to) (0-based, end exclusive, clamped)
Subarray(buf, from, to) ==
  LET t == IF to > Len(buf) THEN Len(buf) ELSE to
  IN IF from >= t THEN << >> ELSE SubSeq(buf, from + 1, t)

RECURSIVE SumBytes(_)
SumBytes(bytes) == IF bytes = << >> THEN 0 ELSE Head(bytes) + SumBytes(Tail(bytes))

(***************************************************************************)
(* protocol.js: the codec.                                                 *)
(***************************************************************************)
\* a faulty checksum without the outer reduction; the properties of the
\* checksum's range must tell it from checksum
checksumUnreduced(bytes) == 256 - (SumBytes(bytes) % 256)

checksum(bytes) == (256 - (SumBytes(bytes) % 256)) % 256

\* a function's outcome: a returned value, or a thrown error
Return(v) == [threw |-> FALSE, value |-> v]
Throw(e) == [threw |-> TRUE, error |-> e]

\* a faulty channelToBytes that puts the bit of a channel in the other byte;
\* the properties of the channel encoding must tell it from channelToBytes
channelToBytesSwapped(channel) ==
  IF channel < 1 \/ channel > 15 THEN Throw("RangeError: channel must be 1..15")
  ELSE IF channel <= 8 THEN Return(<<Pow2(channel - 1), 0>>)
  ELSE Return(<<0, Pow2(channel - 9)>>)

\* a faulty channelToBytes that lets channel 16 through; the properties of
\* the channel range must tell it from channelToBytes
channelToBytesUpTo16(channel) ==
  IF channel < 1 \/ channel > 16 THEN Throw("RangeError: channel must be 1..15")
  ELSE IF channel <= 8 THEN Return(<<0, Pow2(channel - 1)>>)
  ELSE Return(<<Pow2(channel - 9), 0>>)

\* [high, low] of a channel
channelToBytes(channel) ==
  IF channel < 1 \/ channel > 15 THEN Throw("RangeError: channel must be 1..15")
  ELSE IF channel <= 8 THEN Return(<<0, Pow2(channel - 1)>>)
  ELSE Return(<<Pow2(channel - 9), 0>>)

\* the while loop of bytesToChannel: n >>>= 1, channel++ until n = 1 or channel > 15
RECURSIVE ShiftLoop(_, _)
ShiftLoop(n, channel) ==
  IF n # 1 /\ channel <= 15 THEN ShiftLoop(n \div 2, channel + 1) ELSE channel

bytesToChannel(high, low) ==
  LET word == ToInt32(high) * 256 + ToInt32(low)
      channel == ShiftLoop(word, 1)
  IN IF channel <= 15 /\ AndPred(word) = 0 THEN channel ELSE 0

\* the for loop of bitmapToChannels, from bit i on
RECURSIVE BitmapLoop(_, _)
BitmapLoop(word, i) ==
  IF i >= 15 THEN << >>
  ELSE (IF Bit(word, i) = 1 THEN <<i + 1>> ELSE << >>) \o BitmapLoop(word, i + 1)

\* a faulty bitmapToChannels that reads the low byte only; the properties of
\* the decoded bitmap must tell it from bitmapToChannels
bitmapToChannelsLowOnly(high, low) == BitmapLoop(ToInt32(low), 0)

bitmapToChannels(high, low) == BitmapLoop(ToInt32(high) * 256 + ToInt32(low), 0)

\* a faulty buildFrame whose length byte does not count the checksum; the
\* properties of built frames must tell it from buildFrame
buildFrameShortLength(cmd, payloadBytes) ==
  LET body == <<cmd>> \o payloadBytes
      all == <<HEADER, Len(body)>> \o body
  IN all \o <<checksum(all)>>

\* a faulty buildFrame whose length byte counts the length byte itself; the
\* properties of the length byte must tell it from buildFrame
buildFrameCountsLength(cmd, payloadBytes) ==
  LET body == <<cmd>> \o payloadBytes
      all == <<HEADER, Len(body) + 2>> \o body
  IN all \o <<checksum(all)>>

\* a faulty buildFrame whose checksum leaves out the header and the length
\* byte; the properties of the frame layout must tell it from buildFrame
buildFrameChecksumOfBody(cmd, payloadBytes) ==
  LET body == <<cmd>> \o payloadBytes
      length == Len(body) + 1
  IN <<HEADER, length>> \o body \o <<checksum(body)>>

buildFrame(cmd, payloadBytes) ==
  LET body == <<cmd>> \o payloadBytes
      length == Len(body) + 1
      all == <<HEADER, length>> \o body
  IN all \o <<checksum(all)>>

\* the result null of parseFrame
NullFrame == [null |-> TRUE]

\* a faulty parseFrame that does not compare the checksum; the properties of
\* dropped frames must tell it from parseFrame
parseFrameUnchecked(buffer) ==
  IF Len(buffer) < 3 THEN NullFrame
  ELSE LET total == 2 + buffer[2]
       IN IF Len(buffer) < total THEN NullFrame
          ELSE LET body == Subarray(buffer, 2, total - 1)
               IN [null |-> FALSE, cmd |-> At(body, 0),
                   payload |-> Subarray(body, 1, Len(body))]

\* NullFrame, or [cmd, payload]
parseFrame(buffer) ==
  IF Len(buffer) < 3 THEN NullFrame
  ELSE LET len == buffer[2]
           total == 2 + len
       IN IF Len(buffer) < total THEN NullFrame
          ELSE LET frame == Subarray(buffer, 0, total)
                   body == Subarray(frame, 2, total - 1)
                   receivedChecksum == frame[total]
                   expectedChecksum == checksum(Subarray(frame, 0, total - 1))
               IN IF receivedChecksum # expectedChecksum THEN NullFrame
                  ELSE [null |-> FALSE, cmd |-> At(body, 0),
                        payload |-> Subarray(body, 1, Len(body))]

buildEasyCheck == Return(buildFrame(CMD_EASY_CHECK, << >>))

buildEasyInfo(channel) ==
  LET hl == channelToBytes(channel)
  IN IF hl.threw THEN hl ELSE Return(buildFrame(CMD_EASY_INFO, hl.value))

buildEasySend(channel, payloadByte) ==
  LET hl == channelToBytes(channel)
  IN IF hl.threw THEN hl ELSE Return(buildFrame(CMD_EASY_SEND, hl.value \o <<payloadByte>>))

\* state.js: statusByteToDriveSemantic through STATUS_DRIVE (protocol.js)
statusByteToDriveSemantic(statusByte) ==
  CASE statusByte = 0 -> "no_information"
    [] statusByte = 1 -> "top_position"
    [] statusByte = 2 -> "bottom_position"
    [] statusByte = 3 -> "intermediate_position"
    [] statusByte = 4 -> "tilt_position"
    [] statusByte = 5 -> "blocking"
    [] statusByte = 6 -> "overheated"
    [] statusByte = 7 -> "timeout"
    [] statusByte = 8 -> "move_up_started"
    [] statusByte = 9 -> "move_down_started"
    [] statusByte = 10 -> "moving_up"
    [] statusByte = 11 -> "moving_down"
    [] statusByte = 13 -> "stopped_in_undefined_position"
    [] statusByte = 14 -> "top_tilt_stop"
    [] statusByte = 15 -> "bottom_intermediate_stop"
    [] statusByte = 16 -> "switching_device_off"
    [] statusByte = 17 -> "switching_device_on"
    [] OTHER -> "unknown"

(***************************************************************************)
(* The dispatcher's state (stick.js, module level) and the status store    *)
(* (state.js).                                                             *)
(***************************************************************************)
VARIABLES
  items,           \* every request object created by enqueue, in creation order;
                   \* a request is named by its index (JS object identity)
  queue,           \* stick.js queue: the indices of the queued requests
  readBuffer,      \* stick.js readBuffer
  responseTimer,   \* stick.js responseTimer: the pending timeout it refers to
  processing,      \* stick.js processing
  lostTimers,      \* pending response timeouts responseTimer no longer refers to
  wakeups,         \* pending setTimeout(() => processNext(), ms): ms still to go
  writes,          \* serial.write promises not yet settled, oldest first
  listening,       \* onSerialData is registered as the port's 'data' listener
  learnedChannels, \* state.js learnedChannels
  channelStatus,   \* state.js channelStatus: channel -> status byte
  calls,           \* history: per request, the resolve/reject calls made so far
  outcome,         \* history: per request, what its first resolve/reject call carried
  rules,           \* scheduleRules.js rules: the stored schedule rules
  clock,           \* the local day and the tick of the scheduler's interval within it
  sentToday,       \* history: per stored rule, the easySend calls the scheduler issued
                   \* for it on the current day since the rules were last set
  uuids,           \* history: how many ids randomUUID has returned
  codecIn,         \* the codec on its own: the command byte and payload given to buildFrame
  codecOut,        \* the codec on its own: what was computed from codecIn
  written,         \* history: per request, how often it was passed to serial.write
  sinceSettle,     \* history: ms since the last resolve/reject call (capped)
  stopped,         \* history: stop() has been called
  wire,            \* bytes the stick has sent that the port has not delivered yet
  delivered,       \* history: the bytes passed to onSerialData by Deliver, in order
  ev               \* history: the callback that ran last: its name, the request it
                   \* was about, the frames it cut from the buffer (onSerialData) or
                   \* wrote (processNext), the resolve/reject calls it made, in order

vars == <<items, queue, readBuffer, responseTimer, processing, lostTimers, wakeups,
          writes, listening, learnedChannels, channelStatus, calls, written,
          sinceSettle, stopped, wire, delivered, outcome, rules, clock, sentToday, uuids, codecIn, codecOut, ev>>

commandDelayMs == DEFAULT_DELAY_MS

\* responseTimer = null
NoTimer == [item |-> 0, rem |-> 0]

\* no call of resolve/reject yet
Never == 0 - 1

\* the requests the API creates (easyCheck, easyInfo, easySend)
Requests ==
  { [type |-> "easy_check", channel |-> Undefined, payload |-> Undefined],
    [type |-> "easy_info", channel |-> 1, payload |-> Undefined],
    [type |-> "easy_send", channel |-> 1, payload |-> PAYLOAD_TOP],
    [type |-> "easy_info", channel |-> 16, payload |-> Undefined],
    [type |-> "easy_send", channel |-> Undefined, payload |-> PAYLOAD_TOP] }

\* what the stick sends: whole frames, one or two at a time
ConfirmFrame == buildFrame(RSP_EASY_CONFIRM, <<0, 5>>)
AckFrame == buildFrame(RSP_EASY_ACK, <<0, 1, 1>>)
CorruptFrame == [AckFrame EXCEPT ![Len(AckFrame)] = (@ + 1) % 256]
Bursts == {ConfirmFrame, AckFrame, CorruptFrame, AckFrame \o AckFrame}

Channel == 1..15

\* the keys channelStatus (a Map) can be given: what bytesToChannel returns
StoreKeys == 0..15
NoStatus == [c \in StoreKeys |-> Undefined]

(***************************************************************************)
(* The part of the state the callbacks of stick.js work on, as a record.   *)
(***************************************************************************)
Cur ==
  [queue |-> queue, responseTimer |-> responseTimer, processing |-> processing,
   wakeups |-> wakeups, learnedChannels |-> learnedChannels,
   channelStatus |-> channelStatus, calls |-> calls, made |-> << >>,
   sinceSettle |-> sinceSettle]

\* item.resolve(value) / item.reject(err)
Call(d, id, fn, with, channels) ==
  [d EXCEPT !.calls[id] = @ + 1,
            !.made = Append(@, [id |-> id, fn |-> fn, with |-> with, channels |-> channels]),
            !.sinceSettle = 0]

\* setTimeout(() => processNext(), ms)
WakeupIn(d, ms) == [d EXCEPT !.wakeups = @ (+) SetToBag({ms})]

\* clearResponseTimer: the timeout responseTimer refers to is cancelled
clearResponseTimer(d) == [d EXCEPT !.responseTimer = NoTimer]

\* queue.shift()
Shift(d) == [d EXCEPT !.queue = IF @ = << >> THEN @ ELSE Tail(@)]

\* state.setLearnedChannels: a sorted copy
RECURSIVE SortAsc(_)
SortAsc(s) ==
  IF s = << >> THEN << >>
  ELSE LET m == CHOOSE i \in 1..Len(s) : \A j \in 1..Len(s) : s[i] <= s[j]
       IN <<s[m]>> \o SortAsc(SubSeq(s, 1, m - 1) \o SubSeq(s, m + 1, Len(s)))

setLearnedChannels(d, channels) == [d EXCEPT !.learnedChannels = SortAsc(channels)]

\* state.setChannelStatus (the semantic stored with it is a function of the byte)
setChannelStatus(d, channel, statusByte) ==
  [d EXCEPT !.channelStatus = [@ EXCEPT ![channel] = statusByte]]

\* the common tail of every settlement in onSerialData/processNext
Done(d) == WakeupIn([d EXCEPT !.processing = FALSE], commandDelayMs)

\* a faulty confirm branch that resolves the head whatever its type; the
\* properties of mismatching frames must tell it from OnConfirm
OnConfirmAnyHead(d, parsed) ==
  LET channels == bitmapToChannels(At(parsed.payload, 0), At(parsed.payload, 1))
      d1 == clearResponseTimer(setLearnedChannels(d, channels))
  IN IF d1.queue # << >>
     THEN Done(Call(Shift(d1), Head(d1.queue), "resolve", "channels", channels))
     ELSE d1

\* onSerialData, lines 72-84: an easy_confirm frame
OnConfirm(d, parsed) ==
  LET high == At(parsed.payload, 0)
      low == At(parsed.payload, 1)
      channels == bitmapToChannels(high, low)
      d1 == clearResponseTimer(setLearnedChannels(d, channels))
  IN IF d1.queue # << >> /\ items[Head(d1.queue)].type = "easy_check"
     THEN Done(Call(Shift(d1), Head(d1.queue), "resolve", "channels", channels))
     ELSE d1

\* a faulty ack branch that stores the status whatever bytesToChannel
\* returned; the properties of the store's keys must tell it from OnAck
OnAckUnguarded(d, parsed) ==
  LET channel == bytesToChannel(At(parsed.payload, 0), At(parsed.payload, 1))
      d1 == clearResponseTimer(setChannelStatus(d, channel, At(parsed.payload, 2)))
  IN IF d1.queue # << >> /\ items[Head(d1.queue)].type \in {"easy_info", "easy_send"}
     THEN Done(Call(Shift(d1), Head(d1.queue), "resolve", "undefined", << >>))
     ELSE d1

\* a faulty ack branch that resolves the head only when the ack names the
\* head's channel; the properties of acks naming other channels must tell it
\* from OnAck
OnAckSameChannel(d, parsed) ==
  LET channel == bytesToChannel(At(parsed.payload, 0), At(parsed.payload, 1))
      statusByte == At(parsed.payload, 2)
      d0 == IF channel >= 1 /\ channel <= 15 THEN setChannelStatus(d, channel, statusByte) ELSE d
      d1 == clearResponseTimer(d0)
  IN IF /\ d1.queue # << >>
        /\ items[Head(d1.queue)].type \in {"easy_info", "easy_send"}
        /\ items[Head(d1.queue)].channel = channel
     THEN Done(Call(Shift(d1), Head(d1.queue), "resolve", "undefined", << >>))
     ELSE d1

\* onSerialData, lines 85-100: an easy_ack frame
OnAck(d, parsed) ==
  LET high == At(parsed.payload, 0)
      low == At(parsed.payload, 1)
      channel == bytesToChannel(high, low)
      statusByte == At(parsed.payload, 2)
      d0 == IF channel >= 1 /\ channel <= 15 THEN setChannelStatus(d, channel, statusByte) ELSE d
      d1 == clearResponseTimer(d0)
  IN IF d1.queue # << >> /\ items[Head(d1.queue)].type \in {"easy_info", "easy_send"}
     THEN Done(Call(Shift(d1), Head(d1.queue), "resolve", "undefined", << >>))
     ELSE d1

\* onSerialData, lines 70-101: one frame cut from the buffer
OnFrame(d, frame) ==
  LET parsed == parseFrame(frame)
  IN IF parsed.null THEN d
     ELSE IF parsed.cmd = RSP_EASY_CONFIRM THEN OnConfirm(d, parsed)
     ELSE IF parsed.cmd = RSP_EASY_ACK THEN OnAck(d, parsed)
     ELSE d

\* a faulty loop that empties the buffer when parseFrame rejects a frame; the
\* properties of recovery after a bad frame must tell it from Drain
RECURSIVE DrainFlushesOnBadFrame(_, _)
DrainFlushesOnBadFrame(d, buf) ==
  IF Len(buf) < 2 THEN [d |-> d, buf |-> buf]
  ELSE LET total == 2 + buf[2]
       IN IF Len(buf) < total THEN [d |-> d, buf |-> buf]
          ELSE IF parseFrame(Subarray(buf, 0, total)).null THEN [d |-> d, buf |-> << >>]
          ELSE DrainFlushesOnBadFrame(OnFrame(d, Subarray(buf, 0, total)),
                                      Subarray(buf, total, Len(buf)))

\* onSerialData, lines 64-102: the while loop; gives the state and the buffer left
RECURSIVE Drain(_, _)
Drain(d, buf) ==
  IF Len(buf) < 2 THEN [d |-> d, buf |-> buf]
  ELSE LET total == 2 + buf[2]
       IN IF Len(buf) < total THEN [d |-> d, buf |-> buf]
          ELSE Drain(OnFrame(d, Subarray(buf, 0, total)), Subarray(buf, total, Len(buf)))

\* the frames the while loop cuts from a buffer
RECURSIVE FramesOf(_)
FramesOf(buf) ==
  IF Len(buf) < 2 \/ Len(buf) < 2 + buf[2] THEN << >>
  ELSE <<Subarray(buf, 0, 2 + buf[2])>> \o FramesOf(Subarray(buf, 2 + buf[2], Len(buf)))

(***************************************************************************)
(* Initial state: the modules are loaded, nothing has been called yet.     *)
(***************************************************************************)
Event(op, item, frames, made) == [op |-> op, item |-> item, frames |-> frames, calls |-> made]

NoFrameGiven == [cmd |-> 0, payload |-> << >>]
NothingComputed == [op |-> "none", pos |-> 0, value |-> 0, frame |-> << >>, parsed |-> NullFrame]

\* the dispatcher and the store as the modules leave them when loaded
Loaded ==
  /\ items = << >>
  /\ queue = << >>
  /\ readBuffer = << >>
  /\ responseTimer = NoTimer
  /\ processing = FALSE
  /\ lostTimers = EmptyBag
  /\ wakeups = EmptyBag
  /\ writes = << >>
  /\ listening = FALSE
  /\ learnedChannels = << >>
  /\ channelStatus = NoStatus
  /\ calls = << >>
  /\ outcome = << >>
  /\ written = << >>
  /\ sinceSettle = Never
  /\ stopped = FALSE
  /\ wire = << >>
  /\ delivered = << >>
  /\ ev = Event("init", 0, << >>, << >>)
  /\ rules = << >>
  /\ clock = [day |-> 1, tick |-> 0]
  /\ sentToday = << >>
  /\ uuids = 0

Init ==
  /\ codecIn = NoFrameGiven
  /\ codecOut = NothingComputed
  /\ Loaded

\* no resolve/reject call was made for the request
Unsettled == "none"

\* the first calls among the calls a callback made, added to those known
RECURSIVE FirstCalls(_, _)
FirstCalls(known, made) ==
  IF made = << >> THEN known
  ELSE LET c == Head(made)
       IN FirstCalls(IF known[c.id] = Unsettled THEN [known EXCEPT ![c.id] = c.with] ELSE known,
                     Tail(made))

\* the record a callback leaves, written back to the variables
Becomes(d, op, item, frames) ==
  /\ ev' = Event(op, item, frames, d.made)
  /\ outcome' = FirstCalls(outcome, d.made)
  /\ queue' = d.queue
  /\ responseTimer' = d.responseTimer
  /\ processing' = d.processing
  /\ wakeups' = d.wakeups
  /\ learnedChannels' = d.learnedChannels
  /\ channelStatus' = d.channelStatus
  /\ calls' = d.calls
  /\ sinceSettle' = d.sinceSettle

(***************************************************************************)
(* start(): main() calls it once, after the port is open and before any    *)
(* request is made.                                                        *)
(***************************************************************************)
Start ==
  /\ ~listening
  /\ ~stopped
  /\ listening' = TRUE
  /\ ev' = Event("start", 0, << >>, << >>)
  /\ UNCHANGED <<items, queue, readBuffer, responseTimer, processing, lostTimers, wakeups,
                 writes, learnedChannels, channelStatus, calls, written, sinceSettle,
                 stopped, wire, delivered, outcome, rules, clock, sentToday, uuids, codecIn, codecOut>>

(***************************************************************************)
(* enqueue(item), reached through easyCheck / easyInfo / easySend.         *)
(***************************************************************************)
enqueue(item) ==
  LET id == Len(items) + 1
      q == Append(queue, id)
  IN /\ items' = Append(items, item)
     /\ written' = Append(written, 0)
     /\ calls' = Append(calls, 0)
     /\ outcome' = Append(outcome, Unsettled)
     /\ queue' = q
     /\ wakeups' = IF Len(q) = 1 /\ ~processing THEN wakeups (+) SetToBag({0}) ELSE wakeups
     /\ ev' = Event("enqueue", id, << >>, << >>)
     /\ UNCHANGED <<readBuffer, responseTimer, processing, lostTimers, writes, listening,
                    learnedChannels, channelStatus, sinceSettle, stopped, wire, delivered,
                    rules, clock, sentToday, uuids, codecIn, codecOut>>

EnqueueOf(R, max) ==
  /\ listening \/ stopped
  /\ Len(items) < max
  /\ \E item \in R : enqueue(item)

Enqueue == EnqueueOf(Requests, MaxReq)

(***************************************************************************)
(* processNext(), run by a wake-up timer that is due.                      *)
(***************************************************************************)
\* lines 110-123: the frame of the request, or what is thrown
BuildFor(item) ==
  IF item.type = "easy_check" THEN buildEasyCheck
  ELSE IF item.type = "easy_info" /\ item.channel # Undefined THEN buildEasyInfo(item.channel)
  ELSE IF item.type = "easy_send" /\ item.channel # Undefined /\ item.payload # Undefined
    THEN buildEasySend(item.channel, item.payload)
  ELSE Throw("Invalid queue item")

\* the guard of processNext, line 106
Idle(d) == d.processing \/ d.queue = << >>

processNext(d0) ==
  IF Idle(d0)
  THEN /\ Becomes(d0, "processNext", 0, << >>)
       /\ UNCHANGED <<writes, written>>
  ELSE LET id == Head(d0.queue)
           built == BuildFor(items[id])
           d == [d0 EXCEPT !.processing = TRUE]
       IN IF built.threw
          THEN /\ Becomes(Done(Call(Shift(d), id, "reject", built.error, << >>)),
                          "processNext", id, << >>)
               /\ UNCHANGED <<writes, written>>
          ELSE /\ Becomes(d, "processNext", id, <<built.value>>)
               /\ writes' = Append(writes, id)
               /\ written' = [written EXCEPT ![id] = @ + 1]

ProcessNext ==
  /\ BagIn(0, wakeups)
  /\ processNext([Cur EXCEPT !.wakeups = @ (-) SetToBag({0})])
  /\ UNCHANGED <<items, readBuffer, lostTimers, listening, stopped, wire, delivered,
                 rules, clock, sentToday, uuids, codecIn, codecOut>>

(***************************************************************************)
(* serial.write(buffer).then(ok, err): the two callbacks, lines 133-149.   *)
(* The port completes writes in the order they were issued.                *)
(***************************************************************************)
WriteOk ==
  /\ writes # << >>
  /\ LET item == Head(writes)
     IN /\ responseTimer' = [item |-> item, rem |-> RESPONSE_TIMEOUT_MS]
        /\ lostTimers' = IF responseTimer = NoTimer THEN lostTimers
                         ELSE lostTimers (+) SetToBag({responseTimer})
        /\ ev' = Event("writeOk", item, << >>, << >>)
  /\ writes' = Tail(writes)
  /\ UNCHANGED <<items, queue, readBuffer, processing, wakeups, listening, learnedChannels,
                 channelStatus, calls, written, sinceSettle, stopped, wire, delivered,
                 outcome, rules, clock, sentToday, uuids, codecIn, codecOut>>

WriteFail ==
  /\ writes # << >>
  /\ LET item == Head(writes)
     IN Becomes(Done(Call(Shift(Cur), item, "reject", "write error", << >>)),
                "writeFail", item, << >>)
  /\ writes' = Tail(writes)
  /\ UNCHANGED <<items, readBuffer, lostTimers, listening, written, stopped, wire,
                 delivered, rules, clock, sentToday, uuids, codecIn, codecOut>>

(***************************************************************************)
(* The response timeout callback, lines 134-142, run by a response timer   *)
(* that is due: the one responseTimer refers to, or one it lost track of.  *)
(***************************************************************************)
\* a faulty timeout callback that leaves the request at the head, unsettled; the
\* properties of the timeout must tell it from onTimeout
onTimeoutKeepsHead(d0, item) == Done([d0 EXCEPT !.responseTimer = NoTimer])

\* a faulty timeout callback that does not schedule processNext; the properties
\* of the wake-ups must tell it from onTimeout
onTimeoutNoWakeup(d0, item) ==
  LET d == [d0 EXCEPT !.responseTimer = NoTimer, !.processing = FALSE]
  IN IF d.queue # << >> /\ Head(d.queue) = item
     THEN Call(Shift(d), item, "reject", "Response timeout", << >>)
     ELSE d

onTimeout(d0, item) ==
  LET d == [d0 EXCEPT !.responseTimer = NoTimer]
  IN IF d.queue # << >> /\ Head(d.queue) = item
     THEN Done(Call(Shift(d), item, "reject", "Response timeout", << >>))
     ELSE Done(d)

ResponseTimeout ==
  /\ responseTimer # NoTimer
  /\ responseTimer.rem = 0
  /\ Becomes(onTimeout(Cur, responseTimer.item), "timeout", responseTimer.item, << >>)
  /\ UNCHANGED <<items, readBuffer, lostTimers, writes, listening, written, stopped,
                 wire, delivered, rules, clock, sentToday, uuids, codecIn, codecOut>>

LostTimeout ==
  \E t \in BagToSet(lostTimers) :
    /\ t.rem = 0
    /\ Becomes(onTimeout(Cur, t.item), "timeout", t.item, << >>)
    /\ lostTimers' = IF responseTimer = NoTimer THEN lostTimers (-) SetToBag({t})
                     ELSE (lostTimers (-) SetToBag({t})) (+) SetToBag({responseTimer})
    /\ UNCHANGED <<items, readBuffer, writes, listening, written, stopped, wire,
                   delivered, rules, clock, sentToday, uuids, codecIn, codecOut>>

(***************************************************************************)
(* onSerialData(data): the port's 'data' event.  The stick sends whole     *)
(* frames, one or two at a time.                                           *)
(***************************************************************************)
\* a faulty onSerialData that forgets the bytes buffered by earlier calls; the
\* properties of split deliveries must tell it from onSerialData
onSerialDataUnbuffered(data) ==
  LET r == Drain(Cur, data)
  IN /\ Becomes(r.d, "data", 0, FramesOf(data))
     /\ readBuffer' = r.buf

onSerialData(data) ==
  LET r == Drain(Cur, readBuffer \o data)
  IN /\ Becomes(r.d, "data", 0, FramesOf(readBuffer \o data))
     /\ readBuffer' = r.buf

SerialDataOf(B) ==
  /\ listening
  /\ \E data \in B : onSerialData(data)
  /\ UNCHANGED <<items, lostTimers, writes, listening, written, stopped, wire,
                 delivered, rules, clock, sentToday, uuids, codecIn, codecOut>>

SerialData == SerialDataOf(Bursts)

(***************************************************************************)
(* stop(), lines 200-209.                                                  *)
(***************************************************************************)
RECURSIVE RejectAll(_, _)
RejectAll(d, q) ==
  IF q = << >> THEN d
  ELSE RejectAll(Call(d, Head(q), "reject", "Stick stopped", << >>), Tail(q))

stop ==
  LET d1 == [clearResponseTimer(Cur) EXCEPT !.processing = FALSE]
      d2 == RejectAll(d1, d1.queue)
  IN /\ Becomes([d2 EXCEPT !.queue = << >>], "stop", 0, << >>)
     /\ listening' = FALSE
     /\ readBuffer' = << >>

Stop ==
  /\ listening \/ stopped
  /\ stop
  /\ stopped' = TRUE
  /\ UNCHANGED <<items, lostTimers, writes, written, wire, delivered, rules, clock, sentToday, uuids, codecIn, codecOut>>

(***************************************************************************)
(* Time passes, up to the next instant of interest.  A timer that is due   *)
(* runs before more time passes.                                           *)
(***************************************************************************)
\* the ms left of every pending timer
Pending ==
  (IF responseTimer = NoTimer THEN {} ELSE {responseTimer.rem})
    \cup {t.rem : t \in BagToSet(lostTimers)} \cup BagToSet(wakeups)

\* the ms to the instant at which the command delay since the last settlement has passed
DelayLeft ==
  IF sinceSettle # Never /\ sinceSettle < commandDelayMs
  THEN {commandDelayMs - sinceSettle} ELSE {}

Min(S) == CHOOSE x \in S : \A y \in S : x <= y

Tick ==
  /\ 0 \notin Pending
  /\ Pending \cup DelayLeft # {}
  /\ LET dt == Min(Pending \cup DelayLeft)
         LessTimer(t) == [t EXCEPT !.rem = @ - dt]
         Less(ms) == ms - dt
     IN /\ responseTimer' = IF responseTimer = NoTimer THEN NoTimer ELSE LessTimer(responseTimer)
        /\ lostTimers' = BagOfAll(LessTimer, lostTimers)
        /\ wakeups' = BagOfAll(Less, wakeups)
        /\ sinceSettle' = IF sinceSettle = Never THEN Never
                          ELSE IF sinceSettle + dt > commandDelayMs THEN commandDelayMs
                          ELSE sinceSettle + dt
  /\ ev' = Event("tick", 0, << >>, << >>)
  /\ UNCHANGED <<items, queue, readBuffer, processing, writes, listening, learnedChannels,
                 channelStatus, calls, written, stopped, wire, delivered, outcome,
                 rules, clock, sentToday, uuids, codecIn, codecOut>>

Next ==
  \/ Start
  \/ Enqueue
  \/ ProcessNext
  \/ WriteOk
  \/ WriteFail
  \/ ResponseTimeout
  \/ LostTimeout
  \/ SerialData
  \/ Stop
  \/ Tick

Spec == Init /\ [][Next]_vars

(***************************************************************************)
(* A narrower environment with one more request: every request is an       *)
(* easy_check, the stick sends easy_confirm frames only, stop() is never   *)
(* called.  Its runs are runs of the program; it serves to reach the       *)
(* states that need three requests.                                        *)
(***************************************************************************)
CheckRequests == {r \in Requests : r.type = "easy_check"}

EnqueueCheck == EnqueueOf(CheckRequests, MaxReq + 1)

SerialConfirm == SerialDataOf({ConfirmFrame})

CheckNext ==
  \/ Start
  \/ EnqueueCheck
  \/ ProcessNext
  \/ WriteOk
  \/ WriteFail
  \/ ResponseTimeout
  \/ LostTimeout
  \/ SerialConfirm
  \/ Tick

CheckSpec == Init /\ [][CheckNext]_vars

(***************************************************************************)
(* The same program when the line also carries bytes that are not a frame  *)
(* of the stick: a sequence laid out as an easy_confirm frame, with the    *)
(* checksum of its bytes, whose first byte is not the header.  Its runs    *)
(* are runs of the program.                                                *)
(***************************************************************************)
HeaderlessConfirm ==
  LET all == <<0, 4, RSP_EASY_CONFIRM, 0, 5>>
  IN all \o <<checksum(all)>>

EnqueueCheckUpToMax == EnqueueOf(CheckRequests, MaxReq)

SerialAnyHeader == SerialDataOf({ConfirmFrame, HeaderlessConfirm})

HeaderNext ==
  \/ Start
  \/ EnqueueCheckUpToMax
  \/ ProcessNext
  \/ WriteOk
  \/ WriteFail
  \/ ResponseTimeout
  \/ LostTimeout
  \/ SerialAnyHeader
  \/ Stop
  \/ Tick

HeaderSpec == Init /\ [][HeaderNext]_vars

(***************************************************************************)
(* The same program when the stick's acks name any channel: the channel of *)
(* the requests (1), another channel (2), or two channels at once.         *)
(***************************************************************************)
AckOtherChannel == buildFrame(RSP_EASY_ACK, <<0, 2, 1>>)
AckNoSingleChannel == buildFrame(RSP_EASY_ACK, <<0, 3, 1>>)

SerialAnyAck == SerialDataOf({ConfirmFrame, AckFrame, AckOtherChannel, AckNoSingleChannel})

AckNext ==
  \/ Start
  \/ Enqueue
  \/ ProcessNext
  \/ WriteOk
  \/ WriteFail
  \/ ResponseTimeout
  \/ LostTimeout
  \/ SerialAnyAck
  \/ Stop
  \/ Tick

AckSpec == Init /\ [][AckNext]_vars

(***************************************************************************)
(* The same program, one request, when the frames on the line carry any    *)
(* channel bytes: bitmaps with bit 15 set, acks with no bit, bit 15 alone  *)
(* or the bit of channel 15, and responses cut short of their payload.     *)
(***************************************************************************)
StoreFrames ==
  { buildFrame(RSP_EASY_CONFIRM, <<192, 1>>),
    buildFrame(RSP_EASY_CONFIRM, <<255, 255>>),
    buildFrame(RSP_EASY_CONFIRM, << >>),
    buildFrame(RSP_EASY_ACK, <<0, 0, 1>>),
    buildFrame(RSP_EASY_ACK, <<128, 0, 1>>),
    buildFrame(RSP_EASY_ACK, <<128, 1, 1>>),
    buildFrame(RSP_EASY_ACK, <<64, 0, 2>>),
    buildFrame(RSP_EASY_ACK, <<0, 1>>) }

SerialStore == SerialDataOf(StoreFrames)

StoreNext ==
  \/ Start
  \/ EnqueueOf(Requests, MaxChunkReq)
  \/ ProcessNext
  \/ WriteOk
  \/ WriteFail
  \/ ResponseTimeout
  \/ SerialStore
  \/ Stop
  \/ Tick

StoreSpec == Init /\ [][StoreNext]_vars

(***************************************************************************)
(* The port delivers what the stick sends in pieces of any size: the       *)
(* stick's frames go on the wire, and each 'data' event hands onSerialData *)
(* some first part of what is on the wire.  One request, at most MaxStream *)
(* bytes.                                                                  *)
(***************************************************************************)
StickFrames == {ConfirmFrame, AckFrame, CorruptFrame}

StickSends ==
  /\ listening
  /\ \E f \in StickFrames :
       /\ Len(delivered) + Len(wire) + Len(f) <= MaxStream
       /\ wire' = wire \o f
  /\ ev' = Event("sent", 0, << >>, << >>)
  /\ UNCHANGED <<items, queue, readBuffer, responseTimer, processing, lostTimers, wakeups,
                 writes, listening, learnedChannels, channelStatus, calls, written,
                 sinceSettle, stopped, delivered, outcome, rules, clock, sentToday, uuids, codecIn, codecOut>>

Deliver ==
  /\ listening
  /\ \E n \in 1..Len(wire) :
       /\ onSerialData(SubSeq(wire, 1, n))
       /\ wire' = SubSeq(wire, n + 1, Len(wire))
       /\ delivered' = delivered \o SubSeq(wire, 1, n)
  /\ UNCHANGED <<items, lostTimers, writes, listening, written, stopped, rules, clock, sentToday, uuids, codecIn, codecOut>>

EnqueueOne == EnqueueOf(Requests, MaxChunkReq)

ChunkNext ==
  \/ Start
  \/ EnqueueOne
  \/ ProcessNext
  \/ WriteOk
  \/ WriteFail
  \/ ResponseTimeout
  \/ StickSends
  \/ Deliver
  \/ Stop
  \/ Tick

ChunkSpec == Init /\ [][ChunkNext]_vars

(***************************************************************************)
(* The stick stays silent and stop() is not called: requests are written,  *)
(* their writes complete or fail, and their response timeouts fire.  No    *)
(* response timer loses its handle in such a run.                          *)
(***************************************************************************)
QuietNext ==
  \/ Start
  \/ Enqueue
  \/ ProcessNext
  \/ WriteOk
  \/ WriteFail
  \/ ResponseTimeout
  \/ Tick

QuietSpec == Init /\ [][QuietNext]_vars

(***************************************************************************)
(* The codec on its own: buildFrame is given a command byte and a payload, *)
(* and the frame it builds is parsed, as built or with one byte replaced.  *)
(***************************************************************************)
\* payload bytes: the ends and the middle of the byte range
PayloadBytes == {0, 1, 128, 255}

RECURSIVE SeqsUpTo(_, _)
SeqsUpTo(S, n) ==
  IF n = 0 THEN {<< >>}
  ELSE LET shorter == SeqsUpTo(S, n - 1)
       IN shorter \cup {Append(q, x) : q \in shorter, x \in S}

CodecInit ==
  /\ codecIn \in [cmd : Byte, payload : SeqsUpTo(PayloadBytes, MaxPayload)]
  /\ codecOut = NothingComputed
  /\ Loaded

\* parseFrame(buildFrame(cmd, payload))
ParseBuilt ==
  /\ codecOut = NothingComputed
  /\ LET frame == buildFrame(codecIn.cmd, codecIn.payload)
     IN codecOut' = [op |-> "parseBuilt", pos |-> 0, value |-> 0, frame |-> frame,
                     parsed |-> parseFrame(frame)]
  /\ UNCHANGED <<items, queue, readBuffer, responseTimer, processing, lostTimers, wakeups,
                 writes, listening, learnedChannels, channelStatus, calls, written,
                 sinceSettle, stopped, wire, delivered, outcome, rules, clock, sentToday, uuids, codecIn, ev>>

\* parseFrame of the built frame with the byte at pos (0-based) replaced by value
ParseCorrupted ==
  /\ codecOut = NothingComputed
  /\ LET frame == buildFrame(codecIn.cmd, codecIn.payload)
     IN \E pos \in 0..(Len(frame) - 1), value \in PayloadBytes :
          /\ value # frame[pos + 1]
          /\ LET corrupted == [frame EXCEPT ![pos + 1] = value]
             IN codecOut' = [op |-> "parseCorrupted", pos |-> pos, value |-> value,
                             frame |-> corrupted, parsed |-> parseFrame(corrupted)]
  /\ UNCHANGED <<items, queue, readBuffer, responseTimer, processing, lostTimers, wakeups,
                 writes, listening, learnedChannels, channelStatus, calls, written,
                 sinceSettle, stopped, wire, delivered, outcome, rules, clock, sentToday, uuids, codecIn, ev>>

CodecNext ==
  \/ ParseBuilt
  \/ ParseCorrupted

CodecSpec == CodecInit /\ [][CodecNext]_vars

(***************************************************************************)
(* checksum on its own: it is given a byte sequence.                       *)
(***************************************************************************)
\* the bytes of the sequences: the ends and the middle of the byte range,
\* and bytes that add up to multiples of 256
ChecksumBytes == {0, 1, 85, 127, 128, 170, 255}

ChecksumInit ==
  /\ codecIn \in [bytes : SeqsUpTo(ChecksumBytes, MaxBytes)]
  /\ codecOut = [op |-> "none"]
  /\ Loaded

\* checksum(bytes)
Checksum ==
  /\ codecOut.op = "none"
  /\ codecOut' = [op |-> "checksum", value |-> checksum(codecIn.bytes)]
  /\ UNCHANGED <<items, queue, readBuffer, responseTimer, processing, lostTimers, wakeups,
                 writes, listening, learnedChannels, channelStatus, calls, written,
                 sinceSettle, stopped, wire, delivered, outcome, rules, clock, sentToday, uuids, codecIn, ev>>

ChecksumNext == Checksum

ChecksumSpec == ChecksumInit /\ [][ChecksumNext]_vars

(***************************************************************************)
(* The channel encoding on its own: channelToBytes is given an integer,    *)
(* and the byte pair it returns, if it returns one, is decoded again.      *)
(***************************************************************************)
ChannelArgs == (0 - MaxChannelArg)..MaxChannelArg

ChannelInit ==
  /\ codecIn \in [channel : ChannelArgs]
  /\ codecOut = [op |-> "none"]
  /\ Loaded

\* channelToBytes(channel)
ChannelToBytes ==
  /\ codecOut.op = "none"
  /\ codecOut' = [op |-> "channelToBytes", result |-> channelToBytes(codecIn.channel)]
  /\ UNCHANGED <<items, queue, readBuffer, responseTimer, processing, lostTimers, wakeups,
                 writes, listening, learnedChannels, channelStatus, calls, written,
                 sinceSettle, stopped, wire, delivered, outcome, rules, clock, sentToday, uuids, codecIn, ev>>

\* bytesToChannel(...channelToBytes(channel))
BytesToChannelBack ==
  /\ codecOut.op = "channelToBytes"
  /\ ~codecOut.result.threw
  /\ LET high == codecOut.result.value[1]
         low == codecOut.result.value[2]
     IN codecOut' = [op |-> "bytesToChannel", result |-> codecOut.result,
                     back |-> bytesToChannel(high, low)]
  /\ UNCHANGED <<items, queue, readBuffer, responseTimer, processing, lostTimers, wakeups,
                 writes, listening, learnedChannels, channelStatus, calls, written,
                 sinceSettle, stopped, wire, delivered, outcome, rules, clock, sentToday, uuids, codecIn, ev>>

ChannelNext ==
  \/ ChannelToBytes
  \/ BytesToChannelBack

ChannelSpec == ChannelInit /\ [][ChannelNext]_vars

(***************************************************************************)
(* The channel decoders on their own: bytesToChannel and bitmapToChannels  *)
(* are given two bytes.                                                    *)
(***************************************************************************)
BytePairInit ==
  /\ codecIn \in [high : Byte, low : Byte]
  /\ codecOut = [op |-> "none"]
  /\ Loaded

\* bytesToChannel(high, low)
BytesToChannel ==
  /\ codecOut.op = "none"
  /\ codecOut' = [op |-> "bytesToChannel", channel |-> bytesToChannel(codecIn.high, codecIn.low)]
  /\ UNCHANGED <<items, queue, readBuffer, responseTimer, processing, lostTimers, wakeups,
                 writes, listening, learnedChannels, channelStatus, calls, written,
                 sinceSettle, stopped, wire, delivered, outcome, rules, clock, sentToday, uuids, codecIn, ev>>

\* bitmapToChannels(high, low)
BitmapToChannels ==
  /\ codecOut.op = "none"
  /\ codecOut' = [op |-> "bitmapToChannels",
                  channels |-> bitmapToChannels(codecIn.high, codecIn.low)]
  /\ UNCHANGED <<items, queue, readBuffer, responseTimer, processing, lostTimers, wakeups,
                 writes, listening, learnedChannels, channelStatus, calls, written,
                 sinceSettle, stopped, wire, delivered, outcome, rules, clock, sentToday, uuids, codecIn, ev>>

\* both decoders on the same two bytes
DecodeBoth ==
  /\ codecOut.op = "none"
  /\ codecOut' = [op |-> "both",
                  channel |-> bytesToChannel(codecIn.high, codecIn.low),
                  channels |-> bitmapToChannels(codecIn.high, codecIn.low)]
  /\ UNCHANGED <<items, queue, readBuffer, responseTimer, processing, lostTimers, wakeups,
                 writes, listening, learnedChannels, channelStatus, calls, written,
                 sinceSettle, stopped, wire, delivered, outcome, rules, clock, sentToday, uuids, codecIn, ev>>

BytePairNext ==
  \/ BytesToChannel
  \/ BitmapToChannels
  \/ DecodeBoth

BytePairSpec == BytePairInit /\ [][BytePairNext]_vars

(***************************************************************************)
(* The same program under the event loop's scheduling: a timer that is due *)
(* runs, a write handed to the port completes (one way or the other), and  *)
(* time passes.  Nothing is assumed of the API's callers or of the stick.  *)
(***************************************************************************)
FairSpec ==
  /\ Spec
  /\ WF_vars(ProcessNext)
  /\ WF_vars(WriteOk \/ WriteFail)
  /\ WF_vars(ResponseTimeout)
  /\ WF_vars(LostTimeout)
  /\ WF_vars(Tick)

(***************************************************************************)
(* Vocabulary of the properties.                                           *)
(***************************************************************************)
Ids == DOMAIN items

\* resolve or reject of the request has been called
Settled(id) == id \in DOMAIN calls /\ calls[id] > 0

InQueue(id) == \E i \in DOMAIN queue : queue[i] = id

\* the last callback was a processNext that passed a frame to serial.write
Wrote == ev.op = "processNext" /\ ev.frames # << >>

\* the request was written, its write completed, and it waits at the head for its response
AwaitingResponse(id) ==
  /\ queue # << >> /\ Head(queue) = id
  /\ written[id] > 0
  /\ \A i \in DOMAIN writes : writes[i] # id

\* a complete frame: header, length, command, payload, checksum; the length byte
\* counts what follows it, and all bytes sum to 0 modulo 256
WellFormed(f) == Len(f) >= 4 /\ f[2] = Len(f) - 2

ChecksumOk(f) == SumBytes(f) % 256 = 0

FrameCmd(f) == f[3]

\* the kind of response a request of this type expects
Expects(type) == IF type = "easy_check" THEN RSP_EASY_CONFIRM ELSE RSP_EASY_ACK

\* the channels of a 16-bit bitmap, ascending
RECURSIVE Ascending(_)
Ascending(S) ==
  IF S = {} THEN << >>
  ELSE LET m == CHOOSE x \in S : \A y \in S : x <= y IN <<m>> \o Ascending(S \ {m})

BitmapChannels(f) == Ascending({c \in Channel : Bit(f[4] * 256 + f[5], c - 1) = 1})

\* the channel an ack frame names: the c with only bit c-1 set, if there is one
AckChannels(f) == {c \in Channel : f[4] * 256 + f[5] = Pow2(c - 1)}

\* some response timeout of the request is still pending
TimerPending(id) ==
  \/ responseTimer # NoTimer /\ responseTimer.item = id
  \/ \E t \in BagToSet(lostTimers) : t.item = id

(***************************************************************************)
(* The dispatcher's contract.                                              *)
(***************************************************************************)

\* C1: at most one request is in flight.  Whenever a frame is passed to
\* serial.write, every request written by an earlier write has been resolved or
\* rejected (a timeout is a rejection).
C1_OneInFlight ==
  Wrote =>
    \A r \in Ids :
      (written[r] > (IF r = ev.item THEN 1 ELSE 0)) => Settled(r)

\* C2: every request that is enqueued is eventually resolved or rejected, when
\* timers fire, writes complete and time passes.
C2_EventuallySettled ==
  \A id \in 1..MaxReq : (id \in Ids) ~> Settled(id)

\* the calls made for request a before the p-th call of the last callback
CallsBefore(p, a) ==
  calls[a] - Cardinality({q \in p..Len(ev.calls) : ev.calls[q].id = a})

\* C3: requests are settled in the order they were enqueued.  When resolve or
\* reject is called for a request for the first time, every request enqueued
\* before it has been resolved or rejected.
C3_FifoSettlement ==
  \A p \in DOMAIN ev.calls :
    LET b == ev.calls[p].id
    IN CallsBefore(p, b) = 0 => \A a \in 1..(b - 1) : CallsBefore(p, a) > 0

\* C4: the inter-command delay is never skipped.  Whenever a frame is passed to
\* serial.write, at least commandDelayMs have passed since the last call of
\* resolve or reject.
C4_DelayNeverSkipped ==
  Wrote => (sinceSettle = Never \/ sinceSettle >= commandDelayMs)

\* C5: a request is settled exactly once: resolve and reject of one request are
\* called at most once in total.
C5_SettledOnce ==
  \A id \in Ids : calls[id] <= 1

\* C6: a request that was written and gets no matching response is eventually
\* taken from the head of the queue (by its response timeout): a request never
\* waits for its response forever.
C6_TimeoutRemoves ==
  \A id \in 1..MaxReq :
    (id \in Ids /\ AwaitingResponse(id)) ~> ~(id \in Ids /\ AwaitingResponse(id))

\* a complete frame with a matching checksum that carries a response
ValidResponse(f) ==
  WellFormed(f) /\ ChecksumOk(f) /\ FrameCmd(f) \in {RSP_EASY_CONFIRM, RSP_EASY_ACK}

\* the resolve call a response frame f owes to the request id
ResolveCall(id, f) ==
  IF FrameCmd(f) = RSP_EASY_CONFIRM
  THEN [id |-> id, fn |-> "resolve", with |-> "channels", channels |-> BitmapChannels(f)]
  ELSE [id |-> id, fn |-> "resolve", with |-> "undefined", channels |-> << >>]

\* this step is onSerialData handling one valid frame whose kind matches the head
\* request, which has been written
MatchingResponseStep ==
  /\ ev'.op = "data"
  /\ Len(ev'.frames) = 1
  /\ ValidResponse(ev'.frames[1])
  /\ queue # << >>
  /\ written[Head(queue)] > 0
  /\ FrameCmd(ev'.frames[1]) = Expects(items[Head(queue)].type)

\* what C7 says of such a step
MatchingResponseEffect ==
  /\ queue' = Tail(queue)
  /\ responseTimer'.item # Head(queue)
  /\ \A t \in BagToSet(lostTimers') : t.item # Head(queue)
  /\ ev'.calls = <<ResolveCall(Head(queue), ev'.frames[1])>>
  /\ processing' = FALSE
  /\ wakeups' = wakeups (+) SetToBag({commandDelayMs})

\* this step writes a frame right after a response resolved a written request
WriteAfterResponse ==
  /\ ev.op = "data"
  /\ ev.calls # << >>
  /\ written[ev.calls[Len(ev.calls)].id] > 0
  /\ ev'.op = "processNext"
  /\ ev'.frames # << >>

\* C7: a valid frame whose kind matches the in-flight head removes the head,
\* cancels its response timer, resolves it (with the ascending channel list of
\* the bitmap for easy_check, with no value for easy_info/easy_send) and
\* schedules the next request after the inter-command delay; no frame is
\* written before that delay has passed.
C7_MatchingResponse ==
  [][/\ MatchingResponseStep => MatchingResponseEffect
     /\ WriteAfterResponse => sinceSettle >= commandDelayMs]_vars

\* this step is onSerialData handling valid response frames only, none of the
\* kind the head request expects
MismatchStep ==
  /\ ev'.op = "data"
  /\ ev'.frames # << >>
  /\ queue # << >>
  /\ \A i \in DOMAIN ev'.frames :
       /\ ValidResponse(ev'.frames[i])
       /\ FrameCmd(ev'.frames[i]) # Expects(items[Head(queue)].type)

\* the store holds what the frames of this step carry (the last frame wins)
StoreUpdated ==
  \A i \in DOMAIN ev'.frames :
    LET f == ev'.frames[i]
        later == {j \in DOMAIN ev'.frames : j > i}
    IN IF FrameCmd(f) = RSP_EASY_CONFIRM
       THEN (\A j \in later : FrameCmd(ev'.frames[j]) # RSP_EASY_CONFIRM)
              => learnedChannels' = BitmapChannels(f)
       ELSE \A c \in AckChannels(f) :
              (\A j \in later : c \notin AckChannels(ev'.frames[j]))
                => channelStatus'[c] = f[6]

\* C8: a valid response frame whose kind does not match the head request is not
\* consumed as its response: the queue is unchanged, no request is settled, and
\* the status store is updated from the frame.
C8_MismatchNotConsumed ==
  [][MismatchStep =>
       /\ queue' = queue
       /\ calls' = calls
       /\ ev'.calls = << >>
       /\ StoreUpdated]_vars

\* C8 at work: a confirm frame arrived while a written easy_info request was
\* the head; the request is still the head, unsettled, and the store has the list
C8_Witness ==
  /\ ev.op = "data"
  /\ ev.frames = <<ConfirmFrame>>
  /\ ev.calls = << >>
  /\ queue # << >>
  /\ items[Head(queue)].type = "easy_info"
  /\ written[Head(queue)] > 0
  /\ ~Settled(Head(queue))
  /\ learnedChannels = <<1, 3>>

\* C9: an ack frame that arrives while no request is in flight settles no
\* request and removes none: the requests an ack-only 'data' event settles have
\* all been written.
C9_UnsolicitedAck ==
  (/\ ev.op = "data"
   /\ ev.frames # << >>
   /\ \A i \in DOMAIN ev.frames :
        ValidResponse(ev.frames[i]) /\ FrameCmd(ev.frames[i]) = RSP_EASY_ACK)
    => \A k \in DOMAIN ev.calls : written[ev.calls[k].id] > 0

\* C10: a complete frame whose checksum does not match is dropped: the queue,
\* the in-flight request, the timers, the processing flag and the status store
\* are unchanged and no request is settled.
C10_BadChecksumDropped ==
  [][(/\ ev'.op = "data"
      /\ ev'.frames # << >>
      /\ \A i \in DOMAIN ev'.frames :
           WellFormed(ev'.frames[i]) /\ ~ChecksumOk(ev'.frames[i]))
       => /\ UNCHANGED <<queue, responseTimer, lostTimers, wakeups, processing,
                         learnedChannels, channelStatus, calls, written, writes>>
          /\ ev'.calls = << >>]_vars

\* C10 at work: a corrupt frame arrived while a request was waiting for its
\* response with its timeout running; it still is
C10_Witness ==
  /\ ev.op = "data"
  /\ ev.frames = <<CorruptFrame>>
  /\ queue # << >>
  /\ AwaitingResponse(Head(queue))
  /\ responseTimer.item = Head(queue)
  /\ processing
  /\ ~Settled(Head(queue))

\* what is left of a byte stream after the complete frames at its front
RECURSIVE RestOf(_)
RestOf(buf) ==
  IF Len(buf) < 2 \/ Len(buf) < 2 + buf[2] THEN buf
  ELSE RestOf(Subarray(buf, 2 + buf[2], Len(buf)))

\* C11: chunking independence.  However the port splits the stream, the frames
\* onSerialData has handled after each delivery are the frames of the bytes
\* delivered so far taken as one delivery, each handled once, and the bytes of
\* an incomplete frame are what the read buffer holds.
C11_ChunkingIndependence ==
  [][delivered' # delivered =>
       /\ ev'.op = "data"
       /\ FramesOf(delivered') = FramesOf(delivered) \o ev'.frames
       /\ readBuffer' = RestOf(delivered')]_vars

\* C11 at work: one delivery brought the end of a confirm frame and the first
\* three bytes of an ack frame; the confirm frame was handled, the rest is kept
C11_Witness ==
  /\ ev.op = "data"
  /\ ev.frames = <<ConfirmFrame>>
  /\ delivered = ConfirmFrame \o SubSeq(AckFrame, 1, 3)
  /\ readBuffer = SubSeq(AckFrame, 1, 3)
  /\ learnedChannels = <<1, 3>>

\* the reject calls stop() owes to the requests of a queue, in queue order
StoppedCalls(q) ==
  [i \in DOMAIN q |->
     [id |-> q[i], fn |-> "reject", with |-> "Stick stopped", channels |-> << >>]]

\* what stop() does to the queue, the requests in it and the read buffer
StopClearsQueue ==
  /\ ev'.calls = StoppedCalls(queue)
  /\ queue' = << >>
  /\ readBuffer' = << >>

\* C12: stop() cancels the running response timer, rejects every request in the
\* queue with 'Stick stopped', and leaves the queue and the read buffer empty:
\* after stop() no response timeout is pending.
C12_StopClears ==
  [][ev'.op = "stop" =>
       /\ responseTimer' = NoTimer
       /\ lostTimers' = EmptyBag
       /\ StopClearsQueue]_vars

\* C13: after stop(), a request submitted through easyCheck, easyInfo or
\* easySend is rejected at once (before the call returns) and nothing is written
\* to the port.
C13_RejectedAfterStop ==
  stopped => /\ (ev.op = "enqueue" => Settled(ev.item))
             /\ ~Wrote

\* C14: a failed write is attributed to the request that was written only: that
\* request is rejected with the transport's error, and no other request leaves
\* the queue or is settled by the failure.
C14_WriteFailureAttribution ==
  [][ev'.op = "writeFail" =>
       /\ ev'.calls = <<[id |-> ev'.item, fn |-> "reject", with |-> "write error",
                         channels |-> << >>]>>
       /\ \A i \in DOMAIN queue :
            queue[i] # ev'.item => \E j \in DOMAIN queue' : queue'[j] = queue[i]
       /\ \A id \in Ids \ {ev'.item} : calls'[id] = calls[id]]_vars

\* C15: the dispatcher never retries: a request is passed to serial.write at
\* most once.
C15_NoRetry ==
  \A id \in Ids : written[id] <= 1

\* the request names a channel that is a number outside 1..15
BadChannel(id) ==
  /\ items[id].type \in {"easy_info", "easy_send"}
  /\ items[id].channel # Undefined
  /\ items[id].channel \notin Channel

\* C16: a request with a channel outside 1..15 is never written to the port,
\* and it is rejected with the range error: no call made for it is a resolve or
\* carries another error (stop() apart, which rejects whatever is queued).
C16_BadChannelRejected ==
  /\ \A id \in Ids : BadChannel(id) => written[id] = 0
  /\ \A k \in DOMAIN ev.calls :
       BadChannel(ev.calls[k].id) =>
         /\ ev.calls[k].fn = "reject"
         /\ ev.calls[k].with \in {"RangeError: channel must be 1..15", "Stick stopped"}

\* C17: a request with a channel outside 1..15 is rejected before it is
\* enqueued: it is never in the queue.
C17_BadChannelNotQueued ==
  \A i \in DOMAIN queue : ~BadChannel(queue[i])

\* the requests other than b that have been written
WrittenBefore(b) == {r \in Ids \ {b} : written[r] > 0}

\* C18: with no inbound frame, the port is written once until the first
\* request's timeout fires: whenever a frame is written, it is the first write
\* of its request and every request written before was rejected by its response
\* timeout.
C18_SecondWriteAfterTimeout ==
  Wrote =>
    /\ written[ev.item] = 1
    /\ \A r \in WrittenBefore(ev.item) : outcome[r] = "Response timeout"

\* C18, amended: with no inbound frame and no stop(), whenever a frame is
\* written, it is the first write of its request and every request written
\* before was rejected by its response timeout or because its write failed.
C18_SecondWriteAfterTimeoutOrFailure ==
  Wrote =>
    /\ written[ev.item] = 1
    /\ \A r \in WrittenBefore(ev.item) :
         outcome[r] \in {"Response timeout", "write error"}

\* C18 at work: the second request is written after the first one timed out
C18_Witness ==
  /\ Wrote
  /\ ev.item = 2
  /\ written = <<1, 1>>
  /\ outcome = <<"Response timeout", Unsettled>>

\* C19: frame round trip.  parseFrame(buildFrame(cmd, payload)) gives that
\* command and that payload.
C19_FrameRoundTrip ==
  codecOut.op = "parseBuilt" =>
    /\ ~codecOut.parsed.null
    /\ codecOut.parsed.cmd = codecIn.cmd
    /\ codecOut.parsed.payload = codecIn.payload

\* C19 at work: a frame with a two-byte payload came back from parseFrame
C19_Witness ==
  /\ codecOut.op = "parseBuilt"
  /\ codecIn = [cmd |-> RSP_EASY_CONFIRM, payload |-> <<128, 255>>]
  /\ codecOut.parsed = [null |-> FALSE, cmd |-> RSP_EASY_CONFIRM, payload |-> <<128, 255>>]

\* C20: a built frame with one byte replaced by a different value is rejected
\* by parseFrame.
C20_SingleByteCorruption ==
  codecOut.op = "parseCorrupted" => codecOut.parsed.null

\* C21: for every byte sequence, checksum gives a byte, and the bytes and
\* their checksum add up to a multiple of 256.
C21_ChecksumCancels ==
  codecOut.op = "checksum" =>
    /\ codecOut.value \in 0..255
    /\ (SumBytes(codecIn.bytes) + codecOut.value) % 256 = 0

\* C21 at work: the bytes add up to 256 and the checksum is 0
C21_Witness ==
  /\ codecOut.op = "checksum"
  /\ codecIn.bytes = <<128, 1, 127>>
  /\ codecOut.value = 0

\* the bits set in the 16-bit word (high << 8) | low
BitsSet(high, low) == {i \in 0..15 : Bit(high * 256 + low, i) = 1}

\* C22: channel round trip.  For a channel in 1..15 channelToBytes returns
\* two bytes with one bit set: bit c-1 of the low byte for c <= 8, bit c-9 of
\* the high byte for c >= 9; and bytesToChannel of them is the channel.
C22_ChannelRoundTrip ==
  (codecOut.op \in {"channelToBytes", "bytesToChannel"} /\ codecIn.channel \in 1..15) =>
    /\ ~codecOut.result.threw
    /\ LET high == codecOut.result.value[1]
           low == codecOut.result.value[2]
       IN /\ high \in Byte
          /\ low \in Byte
          /\ BitsSet(high, low) = {codecIn.channel - 1}
    /\ codecOut.op = "bytesToChannel" => codecOut.back = codecIn.channel

\* C22 at work: channel 15 went to 0x40 0x00 and back
C22_Witness ==
  /\ codecOut.op = "bytesToChannel"
  /\ codecIn.channel = 15
  /\ codecOut.result.value = <<64, 0>>
  /\ codecOut.back = 15

\* C23: for an integer outside 1..15, channelToBytes throws and returns no
\* byte pair.
C23_ChannelRangeError ==
  (codecOut.op = "channelToBytes" /\ codecIn.channel \notin 1..15) => codecOut.result.threw

\* C23 at work: channelToBytes(16) threw
C23_Witness ==
  /\ codecOut.op = "channelToBytes"
  /\ codecIn.channel = 16
  /\ codecOut.result.threw

\* C24 as stated: the length byte (offset 1) of the frame buildFrame emits
\* is 1 + the length of the payload.
C24_LengthIsOnePlusPayload ==
  codecOut.op = "parseBuilt" => At(codecOut.frame, 1) = 1 + Len(codecIn.payload)

\* C24, amended: the length byte (offset 1) of the frame buildFrame emits is
\* 2 + the length of the payload: it counts the command byte, the payload and
\* the checksum.
C24_LengthIsTwoPlusPayload ==
  codecOut.op = "parseBuilt" => At(codecOut.frame, 1) = 2 + Len(codecIn.payload)

\* C24 at work: a frame with a two-byte payload was built, its length byte is 4
C24_Witness ==
  /\ codecOut.op = "parseBuilt"
  /\ codecIn = [cmd |-> CMD_EASY_INFO, payload |-> <<0, 1>>]
  /\ At(codecOut.frame, 1) = 4

\* a frame starts with 0xAA, is 2 + (its length byte) bytes long, and its last
\* byte is a byte that makes the sum of the frame a multiple of 256 (it is the
\* checksum of the bytes before it)
LaidOut(frame) ==
  LET size == Len(frame)
  IN /\ size >= 3
     /\ At(frame, 0) = 170
     /\ size = 2 + At(frame, 1)
     /\ At(frame, size - 1) \in Byte
     /\ SumBytes(frame) % 256 = 0

ChannelBits(high, low) == {i + 1 : i \in BitsSet(high, low) \cap 0..14}

\* C26: bytesToChannel(high, low) is the channel when exactly one bit is set
\* in (high << 8) | low restricted to bits 0-14, and 0 when no bit or several
\* bits are set there.
C26_BytesToChannel ==
  codecOut.op = "bytesToChannel" =>
    LET set == ChannelBits(codecIn.high, codecIn.low)
    IN IF Cardinality(set) = 1 THEN {codecOut.channel} = set ELSE codecOut.channel = 0

\* C27: bitmapToChannels(high, low) lists, in strictly ascending order, the
\* channels i+1 whose bit i (0 <= i <= 14) is set in (high << 8) | low, and
\* nothing else; bit 15 is ignored; (0x00, 0x05) gives [1, 3].
C27_BitmapToChannels ==
  codecOut.op = "bitmapToChannels" =>
    LET channels == codecOut.channels
    IN /\ \A i, j \in 1..Len(channels) : i < j => channels[i] < channels[j]
       /\ {channels[i] : i \in 1..Len(channels)} = ChannelBits(codecIn.high, codecIn.low)
       /\ codecIn = [high |-> 0, low |-> 5] => channels = <<1, 3>>

\* C27 at work: bit 15 and the bits of channels 1 and 15 were set, and
\* bitmapToChannels gave [1, 15]
C27_Witness ==
  /\ codecOut.op = "bitmapToChannels"
  /\ codecIn = [high |-> 192, low |-> 1]
  /\ codecOut.channels = <<1, 15>>

\* C28: a frame the inbound path accepts starts with 0xAA.  When onSerialData
\* has settled a request, every frame it cut from the buffer that parseFrame
\* did not reject has the header byte 0xAA.
C28_HeaderRequired ==
  (ev.op = "data" /\ ev.calls # << >>) =>
    \A i \in 1..Len(ev.frames) :
      ~parseFrame(ev.frames[i]).null => At(ev.frames[i], 0) = HEADER

\* no response timeout is pending
NoTimerRunning == responseTimer = NoTimer /\ lostTimers = EmptyBag

\* this step starts a response timer
TimerStarts ==
  /\ responseTimer' # NoTimer
  /\ responseTimer' # responseTimer
  /\ ev'.op # "tick"

\* a response timer is started by the callback of a write that succeeded, and
\* by nothing else
StartedByWriteOk == [][TimerStarts => ev'.op = "writeOk"]_vars

\* C29: the response timer is started only when the write has completed
\* successfully: no response timer is running while a write is pending, and
\* only the success callback of a write starts one.
C29_TimerAfterWrite == [](writes # << >> => NoTimerRunning) /\ StartedByWriteOk

\* this step is onSerialData handling one valid ack frame while an easy_info or
\* easy_send request is at the head, written, its write completed
AckForHeadStep ==
  /\ ev'.op = "data"
  /\ Len(ev'.frames) = 1
  /\ ValidResponse(ev'.frames[1])
  /\ FrameCmd(ev'.frames[1]) = RSP_EASY_ACK
  /\ queue # << >>
  /\ AwaitingResponse(Head(queue))
  /\ items[Head(queue)].type \in {"easy_info", "easy_send"}

Corrupt(f) == WellFormed(f) /\ ~ChecksumOk(f)

\* this step delivers the end of a valid response frame that follows a corrupt
\* frame in the byte stream
RecoveryStep ==
  /\ delivered' # delivered
  /\ LET F == FramesOf(delivered')
     IN /\ Len(F) >= 2
        /\ Len(FramesOf(delivered)) < Len(F)
        /\ Corrupt(F[Len(F) - 1])
        /\ ValidResponse(F[Len(F)])

\* what such a step does: the corrupt frame is gone from the buffer with its
\* 2 + length bytes, and the valid frame is decoded and handled (the store has
\* what it carries, and a head of its kind is resolved and removed)
RecoveryEffect ==
  LET F == FramesOf(delivered')
      g == F[Len(F)]
  IN /\ readBuffer' = RestOf(delivered')
     /\ ev'.frames # << >>
     /\ ev'.frames[Len(ev'.frames)] = g
     /\ IF FrameCmd(g) = RSP_EASY_CONFIRM
        THEN learnedChannels' = BitmapChannels(g)
        ELSE \A c \in AckChannels(g) : channelStatus'[c] = g[6]
     /\ (queue # << >> /\ Expects(items[Head(queue)].type) = FrameCmd(g))
          => /\ ev'.calls = <<ResolveCall(Head(queue), g)>>
             /\ queue' = Tail(queue)

\* C31: recovery after corruption.  A complete frame that fails the checksum
\* leaves the read buffer as exactly 2 + length bytes, and a valid frame that
\* follows it in the byte stream, in the same delivery or a later one, is
\* decoded and handled.
C31_RecoveryAfterCorruption == [][RecoveryStep => RecoveryEffect]_vars

\* C31 at work: a corrupt ack frame and the start of a confirm frame were
\* delivered, then the rest of the confirm frame, which resolved the request
C31_Witness ==
  /\ ev.op = "data"
  /\ ev.frames = <<ConfirmFrame>>
  /\ delivered = CorruptFrame \o ConfirmFrame
  /\ readBuffer = << >>
  /\ learnedChannels = <<1, 3>>
  /\ channelStatus = NoStatus
  /\ ev.calls = <<[id |-> 1, fn |-> "resolve", with |-> "channels", channels |-> <<1, 3>>]>>

\* C32: a request is resolved only after its own frame has been written: the
\* requests a 'data' event resolves have all been passed to serial.write.
C32_ResolvedAfterWrite ==
  ev.op = "data" =>
    \A k \in DOMAIN ev.calls : ev.calls[k].fn = "resolve" => written[ev.calls[k].id] > 0

\* C33: a valid confirm or ack frame whose kind does not match the in-flight
\* head leaves the head's response timeout running: if the timer the
\* dispatcher holds was the head's before such a frame, it still is after it.
C33_MismatchKeepsTimer ==
  [][(/\ MismatchStep
      /\ AwaitingResponse(Head(queue))
      /\ responseTimer # NoTimer
      /\ responseTimer.item = Head(queue))
       => responseTimer' = responseTimer]_vars

\* the requests this step removes from the queue
Removed == {queue[i] : i \in DOMAIN queue} \ {queue'[j] : j \in DOMAIN queue'}

\* C34: no request is dropped silently: every request a step removes from the
\* queue is settled (resolved or rejected) by that step.
C34_NoSilentDrop ==
  [][\A id \in Removed : \E k \in DOMAIN ev'.calls : ev'.calls[k].id = id]_vars

\* C35: no lost wake-up: whenever the queue is not empty and processing is
\* false, a setTimeout that will call processNext is pending.
C35_NoLostWakeup == (queue # << >> /\ ~processing) => wakeups # EmptyBag

\* C35 at work: the first request timed out with the second one waiting; the
\* wake-up that will dispatch it is pending
C35_Witness ==
  /\ ev.op = "timeout"
  /\ ev.calls = <<[id |-> 1, fn |-> "reject", with |-> "Response timeout", channels |-> << >>]>>
  /\ queue = <<2>>
  /\ ~processing
  /\ wakeups = SetToBag({commandDelayMs})

\* C36: at most one response timeout is pending, the one responseTimer holds,
\* and it belongs to the request at the head of the queue; no timeout started
\* for an earlier request is left to fire.
C36_OneResponseTimer ==
  /\ lostTimers = EmptyBag
  /\ responseTimer # NoTimer => (queue # << >> /\ responseTimer.item = Head(queue))

\* C37: the status store's invariant.  channelStatus has entries for channels
\* 1..15 only (nothing is stored under 0, which bytesToChannel returns for
\* bytes that name no single channel), and learnedChannels is strictly
\* ascending and within 1..15.
C37_StoreInvariant ==
  /\ \A k \in StoreKeys \ Channel : channelStatus[k] = Undefined
  /\ \A i \in DOMAIN learnedChannels : learnedChannels[i] \in Channel
  /\ \A i, j \in DOMAIN learnedChannels : i < j => learnedChannels[i] < learnedChannels[j]

\* C37 at work: a confirm frame with bit 15 and the bits of channels 1 and 15
\* set was stored as [1, 15], an ack for channel 15 was stored, and an ack
\* with bit 15 and the bit of channel 1 has just come and stored nothing
C37_Witness ==
  /\ ev.op = "data"
  /\ ev.frames = <<buildFrame(RSP_EASY_ACK, <<128, 1, 1>>)>>
  /\ learnedChannels = <<1, 15>>
  /\ channelStatus = [NoStatus EXCEPT ![15] = 2]

\* C38: the two decoders agree: for every channel c in 1..15,
\* bytesToChannel(high, low) = c exactly when bitmapToChannels(high, low) = [c].
C38_DecodersAgree ==
  codecOut.op = "both" =>
    \A c \in Channel : (codecOut.channel = c) <=> (codecOut.channels = <<c>>)

\* ---------------------------------------------------------------------
\* The schedule rules (scheduleRules.js) and the scheduler (scheduler.js)
\* ---------------------------------------------------------------------

\* the longest array given to setAll
MaxRules == 2

\* the local calendar days the clock runs through
MaxDay == 2

\* the ticks of the scheduler's interval in one day: a tick each minute from 00:00
TicksPerDay == 2

\* the ids randomUUID returns
MaxUuid == 3

TRIGGERS == {"after_sunset", "before_sunrise", "at_time"}

\* ACTIONS in scheduleRules.js
RuleActions == {"top", "bottom"}

\* the strings TIME_RE accepts, among those a client sends here
TIME_RE == {"00:00", "00:01", "00:02", "24:00"}

\* a rule without an id, a date or a time has the field undefined
NoId == 0

NoDate == "undefined"

NoTime == "undefined"

\* new Date(0), in minutes from today's midnight: before every tick
Epoch == 0 - 1000000

\* the end of today, the upper limit of a rule without maxTime
EndOfDay == 24 * 60

\* todayStr(): the local date of a day as YYYY-MM-DD
todayStr(day) ==
  CASE day = 1 -> "2026-02-01"
    [] day = 2 -> "2026-02-02"
    [] day = 3 -> "2026-02-03"
    [] OTHER -> "2026-02-04"

\* parseTime: "HH:mm" to minutes since midnight, null when the hour is above 23
parseTime(hhmm) ==
  CASE hhmm = "00:00" -> 0
    [] hhmm = "00:01" -> 1
    [] hhmm = "00:02" -> 2
    [] OTHER -> Undefined

\* todayAt: today at HH:mm in minutes from midnight, new Date(0) for a time
\* parseTime rejects
todayAt(hhmm) ==
  IF parseTime(hhmm) = Undefined THEN Epoch ELSE parseTime(hhmm)

clamp(target, minDate, maxDate, hasMin, hasMax) ==
  IF hasMin /\ target < minDate THEN minDate
  ELSE IF hasMax /\ target > maxDate THEN maxDate
  ELSE target

isValidRule(r) ==
  /\ r.channel \in 1..15
  /\ r.action \in RuleActions
  /\ r.trigger \in TRIGGERS
  /\ IF r.trigger = "at_time" THEN r.time \in TIME_RE ELSE r.offsetMinutes \in Int

\* the rules a client puts in the array it sends: with no id or an id it has
\* seen, for a channel in range or not, at a time or after sunset, with or
\* without a lastFiredDate
RuleInputs ==
  [id : {NoId, 1, 2}, channel : {1}, action : {"top"}, trigger : {"at_time"},
   time : {"00:01", "24:00"}, offsetMinutes : {0}, minTime : {NoTime},
   maxTime : {NoTime}, lastFiredDate : {NoDate, todayStr(1)}]
  \cup
  [id : {NoId, 1, 2}, channel : {1}, action : {"top"}, trigger : {"after_sunset"},
   time : {NoTime}, offsetMinutes : {0}, minTime : {NoTime},
   maxTime : {NoTime}, lastFiredDate : {NoDate, todayStr(1)}]
  \cup
  [id : {NoId}, channel : {16}, action : {"top"}, trigger : {"at_time"},
   time : {"00:01"}, offsetMinutes : {0}, minTime : {NoTime},
   maxTime : {NoTime}, lastFiredDate : {NoDate}]

getAll == rules

\* existingById.has(id): some stored rule has the id
existingHas(store, id) == \E k \in 1..Len(store) : store[k].id = id

\* existingById.get(id): a Map built from the rules in order keeps the last
\* rule of an id
existingGet(store, id) ==
  store[CHOOSE k \in 1..Len(store) :
          /\ store[k].id = id
          /\ \A j \in (k + 1)..Len(store) : store[j].id # id]

\* setAll's loop from the k-th rule of the array: the rules pushed and the
\* count of ids randomUUID has returned
RECURSIVE setAllFrom(_, _, _, _, _)
setAllFrom(store, newRules, k, pushed, made) ==
  IF k > Len(newRules) THEN [rules |-> pushed, uuids |-> made]
  ELSE
    LET r == newRules[k]
        known == r.id # NoId /\ existingHas(store, r.id)
        id == IF known THEN r.id ELSE made + 1
        entry == [id |-> id, channel |-> r.channel, action |-> r.action,
                  trigger |-> r.trigger,
                  time |-> IF r.trigger = "at_time" THEN r.time ELSE NoTime,
                  offsetMinutes |-> IF r.trigger = "at_time" THEN 0 ELSE r.offsetMinutes,
                  minTime |-> r.minTime, maxTime |-> r.maxTime,
                  lastFiredDate |->
                    IF r.lastFiredDate # NoDate THEN r.lastFiredDate
                    ELSE IF known THEN existingGet(store, id).lastFiredDate
                    ELSE NoDate]
    IN IF ~isValidRule(r) THEN setAllFrom(store, newRules, k + 1, pushed, made)
       ELSE setAllFrom(store, newRules, k + 1, Append(pushed, entry),
                       IF known THEN made ELSE made + 1)

setAll(newRules) == setAllFrom(rules, newRules, 1, << >>, uuids)

\* markFired: rules.find gives the first rule of the id
markFired(store, ruleId, dateStr) ==
  IF \E k \in 1..Len(store) : store[k].id = ruleId
  THEN LET first == CHOOSE k \in 1..Len(store) :
                      /\ store[k].id = ruleId
                      /\ \A j \in 1..(k - 1) : store[j].id # ruleId
       IN [store EXCEPT ![first].lastFiredDate = dateStr]
  ELSE store

\* the target of a rule today, Undefined for a rule the tick passes over; the
\* server has no location, so sunrise and sunset stay null
targetOf(rule) ==
  IF rule.trigger = "at_time" /\ rule.time # NoTime
  THEN LET hasMin == rule.minTime # NoTime /\ parseTime(rule.minTime) # Undefined
           hasMax == rule.maxTime # NoTime /\ parseTime(rule.maxTime) # Undefined
           minDate == IF hasMin THEN todayAt(rule.minTime) ELSE Epoch
           maxDate == IF hasMax THEN todayAt(rule.maxTime) ELSE EndOfDay
       IN [due |-> TRUE,
           at |-> clamp(todayAt(rule.time), minDate, maxDate, hasMin, hasMax)]
  ELSE [due |-> FALSE, at |-> 0]

\* the interval callback's loop from the k-th rule of the copy getAll gave:
\* the stored rules after the markFired calls, and the easySend calls issued
RECURSIVE fireFrom(_, _, _, _, _, _)
fireFrom(store, sent, copy, k, now, dateStr) ==
  IF k > Len(copy) THEN [rules |-> store, sent |-> sent]
  ELSE
    LET rule == copy[k]
        target == targetOf(rule)
    IN IF rule.lastFiredDate = dateStr \/ ~target.due \/ now < target.at
       THEN fireFrom(store, sent, copy, k + 1, now, dateStr)
       ELSE fireFrom(markFired(store, rule.id, dateStr),
                     [sent EXCEPT ![k] = @ + 1], copy, k + 1, now, dateStr)

\* the clock a minute later
clockNext ==
  IF clock.tick + 1 < TicksPerDay
  THEN [day |-> clock.day, tick |-> clock.tick + 1]
  ELSE [day |-> clock.day + 1, tick |-> 0]

DispatcherVars ==
  <<items, queue, readBuffer, responseTimer, processing, lostTimers, wakeups,
    writes, listening, learnedChannels, channelStatus, calls, outcome,
    written, sinceSettle, stopped, wire, delivered, ev, codecIn, codecOut>>

\* PUT /schedule/rules: setAll with the array of the request
SetAll ==
  \E newRules \in SeqsUpTo(RuleInputs, MaxRules) :
    LET out == setAll(newRules) IN
      /\ out.uuids <= MaxUuid
      /\ rules' = out.rules
      /\ uuids' = out.uuids
      /\ sentToday' = [k \in 1..Len(out.rules) |-> 0]
      /\ UNCHANGED clock
      /\ UNCHANGED DispatcherVars

\* a minute passes and the callback of the scheduler's interval runs
SchedulerTick ==
  /\ clockNext.day <= MaxDay
  /\ clock' = clockNext
  /\ LET start == IF clockNext.day = clock.day THEN sentToday
                  ELSE [k \in 1..Len(rules) |-> 0]
         out == fireFrom(rules, start, getAll, 1, clockNext.tick,
                         todayStr(clockNext.day))
     IN /\ rules' = out.rules
        /\ sentToday' = out.sent
  /\ UNCHANGED uuids
  /\ UNCHANGED DispatcherVars

SchedulerInit ==
  /\ Loaded
  /\ codecIn = NoFrameGiven
  /\ codecOut = NothingComputed

SchedulerNext == SetAll \/ SchedulerTick

SchedulerSpec == SchedulerInit /\ [][SchedulerNext]_vars

\* C40: after setAll, the stored rules have pairwise distinct ids.
C40_DistinctIds ==
  \A i, j \in 1..Len(rules) : i # j => rules[i].id # rules[j].id

\* C39: the scheduler issues at most one easySend for a stored rule on one
\* local calendar day.
C39_OncePerDay ==
  \A k \in 1..Len(sentToday) : sentToday[k] <= 1
====
